---------------------------- MODULE Spec2Model ----------------------------
(***************************************************************************)
(* Model of the fractal generation engine of web_fractals_playground:      *)
(* the colour model (colorUtils.ts), the three generators                  *)
(* (fractalsRenderer.ts) and the click handler of fractalsPlayground.tsx.  *)
(*                                                                         *)
(* Numbers.  The code computes with IEEE doubles.  The geometry and the    *)
(* colour model are modelled with exact arithmetic: rationals <<n, d>> in  *)
(* lowest terms with d > 0, and, for the Koch star, elements of the field  *)
(* Q(sqrt 2, sqrt 3), which holds cos(i*pi/4), sin(i*pi/4) and sqrt(3)/6   *)
(* exactly.  The escape-time iteration squares its operand at every step,  *)
(* so it is modelled in binary fixed point with one rounding per           *)
(* operation, as the doubles round once per operation.                     *)
(***************************************************************************)
EXTENDS Integers, Naturals, Sequences, FiniteSets, TLC

VARIABLES
    color,      \* the last hsbToRgb call: its arguments and its result
    pixel,      \* the last pixel computed by drawJuliaSet
    focusPoint, \* fractalsPlayground.tsx: the focusPoint state
    mouse,      \* the last click on the canvas: its pixel, relative to the canvas
    circles,    \* the canvas operations performed by the Apollonian call
    apCall,     \* the call that produced `circles`
    path,       \* the canvas operations performed by the Koch call
    kochCall,   \* the call that produced `path`
    sizes,      \* zooming: the renders requested and, of those made, the feature size
    raster,     \* drawJuliaSet in progress: the loop position, the image data, the surface
    screen,     \* the playground: its state, the 2D context and what the canvas shows
    thumb,      \* the last thumbnail generated: its call and its output
    run         \* a generator executing step by step: its call stack and its counters

vars == <<color, pixel, focusPoint, mouse, circles, apCall, path, kochCall, sizes,
         raster, screen, thumb, run>>

\* no call pending or made
Idle == [called |-> FALSE]

-----------------------------------------------------------------------------
(* Exact rational arithmetic: <<n, d>>, d > 0, gcd(n, d) = 1.              *)

Abs(n) == IF n < 0 THEN -n ELSE n

RECURSIVE GCD(_, _)
GCD(a, b) == IF b = 0 THEN a ELSE GCD(b, a % b)

Rat(n, d) ==
    LET g == GCD(Abs(n), Abs(d))
        s == IF d < 0 THEN -1 ELSE 1
    IN  <<(s * n) \div g, (s * d) \div g>>

R(n) == <<n, 1>>

RAdd(p, q) == Rat(p[1] * q[2] + q[1] * p[2], p[2] * q[2])
RNeg(p) == <<-p[1], p[2]>>
RSub(p, q) == RAdd(p, RNeg(q))
RMul(p, q) == Rat(p[1] * q[1], p[2] * q[2])
RDiv(p, q) == Rat(p[1] * q[2], p[2] * q[1])
RLt(p, q) == p[1] * q[2] < q[1] * p[2]
RLe(p, q) == p[1] * q[2] <= q[1] * p[2]
RAbs(p) == <<Abs(p[1]), p[2]>>

\* Math.trunc, Math.floor and Math.round (round half up) of a rational.
RTrunc(p) == IF p[1] >= 0 THEN p[1] \div p[2] ELSE -((-p[1]) \div p[2])
RFloor(p) == p[1] \div p[2]
RRound(p) == (2 * p[1] + p[2]) \div (2 * p[2])

\* The JavaScript remainder a % b: the sign follows the dividend.
RRem(a, b) == RSub(a, RMul(b, R(RTrunc(RDiv(a, b)))))

-----------------------------------------------------------------------------
(* Exact arithmetic in Q(sqrt 2, sqrt 3):                                  *)
(* <<a, b, c, d, n>> is (a + b*sqrt 2 + c*sqrt 3 + d*sqrt 6) / n, n > 0,   *)
(* in lowest terms.                                                        *)

Q(a, b, c, d, n) ==
    LET g == GCD(GCD(GCD(GCD(Abs(n), Abs(a)), Abs(b)), Abs(c)), Abs(d))
    IN  <<a \div g, b \div g, c \div g, d \div g, n \div g>>

\* a rational, and a number of the code, as elements of the field
QRat(p) == <<p[1], 0, 0, 0, p[2]>>
QInt(k) == <<k, 0, 0, 0, 1>>

LCM(m, n) == (m \div GCD(m, n)) * n

QAdd(p, q) ==
    LET l == LCM(p[5], q[5])
        u == l \div p[5]
        v == l \div q[5]
    IN  Q(p[1] * u + q[1] * v, p[2] * u + q[2] * v,
          p[3] * u + q[3] * v, p[4] * u + q[4] * v, l)

QNeg(p) == <<-p[1], -p[2], -p[3], -p[4], p[5]>>
QSub(p, q) == QAdd(p, QNeg(q))

QMul(p, q) ==
    Q(p[1] * q[1] + 2 * p[2] * q[2] + 3 * p[3] * q[3] + 6 * p[4] * q[4],
      p[1] * q[2] + p[2] * q[1] + 3 * (p[3] * q[4] + p[4] * q[3]),
      p[1] * q[3] + p[3] * q[1] + 2 * (p[2] * q[4] + p[4] * q[2]),
      p[1] * q[4] + p[4] * q[1] + p[2] * q[3] + p[3] * q[2],
      p[5] * q[5])

\* division by a non-zero integer of the code (dx / 3, ... / 6)
QDivInt(p, k) == Q(p[1], p[2], p[3], p[4], p[5] * k)

\* Math.sqrt(3)
Sqrt3 == <<0, 0, 1, 0, 1>>

\* Math.cos(i * Math.PI / 4) and Math.sin(i * Math.PI / 4), i = 0..7
CosEighth(i) ==
    CASE i = 0 -> QInt(1)
      [] i = 1 -> <<0, 1, 0, 0, 2>>
      [] i = 2 -> QInt(0)
      [] i = 3 -> <<0, -1, 0, 0, 2>>
      [] i = 4 -> QInt(-1)
      [] i = 5 -> <<0, -1, 0, 0, 2>>
      [] i = 6 -> QInt(0)
      [] i = 7 -> <<0, 1, 0, 0, 2>>

SinEighth(i) == CosEighth((i + 6) % 8)

-----------------------------------------------------------------------------
(* Binary fixed point for the escape-time iteration: the integer v stands *)
(* for v / FScale.  Every product is rounded to the nearest unit, once.    *)

FScale == 2 ^ 14

\* the fixed-point number nearest to a rational
Fix(p) ==
    LET q == p[1] \div p[2]
        r == p[1] % p[2]
    IN  q * FScale + (2 * r * FScale + p[2]) \div (2 * p[2])

\* a * b, rounded; the operand a is split so that no intermediate product
\* exceeds 32 bits
FMul(a, b) ==
    LET q == a \div FScale
        r == a % FScale
    IN  q * b + (r * b + FScale \div 2) \div FScale

-----------------------------------------------------------------------------
(* colorUtils.ts: hsbToRgb.  h, s, b are rationals.                        *)

\* a plausible slip: the percentages not converted to fractions
hsbChromaOfPercents(s, b) == RMul(b, s)

\* line 15: const c = b * s, after s /= 100 and b /= 100
hsbChroma(s, b) == RMul(RDiv(b, R(100)), RDiv(s, R(100)))

\* a plausible slip: the "1 -" of the intermediate value left out
hsbIntermediateNoComplement(h, c) ==
    RMul(c, RAbs(RSub(RRem(RDiv(h, R(60)), R(2)), R(1))))

\* line 16: const x = c * (1 - Math.abs((h / 60) % 2 - 1))
hsbIntermediate(h, c) ==
    RMul(c, RSub(R(1), RAbs(RSub(RRem(RDiv(h, R(60)), R(2)), R(1)))))

\* lines 22-34: the pre-match triple by 60-degree hue sector
hsbSector(h, c, x) ==
    IF RLe(R(0), h) /\ RLt(h, R(60)) THEN <<c, x, R(0)>>
    ELSE IF RLe(R(60), h) /\ RLt(h, R(120)) THEN <<x, c, R(0)>>
    ELSE IF RLe(R(120), h) /\ RLt(h, R(180)) THEN <<R(0), c, x>>
    ELSE IF RLe(R(180), h) /\ RLt(h, R(240)) THEN <<R(0), x, c>>
    ELSE IF RLe(R(240), h) /\ RLt(h, R(300)) THEN <<x, R(0), c>>
    ELSE <<c, R(0), x>>

\* lines 11-42
hsbToRgb(h, s, b) ==
    LET c == hsbChroma(s, b)
        x == hsbIntermediate(h, c)
        m == RSub(RDiv(b, R(100)), c)
        t == hsbSector(h, c, x)
    IN  <<RRound(RMul(RAdd(t[1], m), R(255))),
          RRound(RMul(RAdd(t[2], m), R(255))),
          RRound(RMul(RAdd(t[3], m), R(255)))>>

-----------------------------------------------------------------------------
(* The canvas context.  A generator is modelled by the sequence of          *)
(* operations it performs on its CanvasRenderingContext2D, in order:       *)
(* assignments to the style properties and method calls.                   *)

SetStrokeStyle(rgb) == [op |-> "strokeStyle", v |-> rgb]
SetLineWidth(w) == [op |-> "lineWidth", v |-> w]
BeginPath == [op |-> "beginPath"]
Arc(x, y, r) == [op |-> "arc", x |-> x, y |-> y, r |-> r]
MoveTo(x, y) == [op |-> "moveTo", x |-> x, y |-> y]
LineTo(x, y) == [op |-> "lineTo", x |-> x, y |-> y]
Stroke == [op |-> "stroke"]

-----------------------------------------------------------------------------
(* fractalsPlayground.tsx                                                   *)

\* line 23: const zoomLevels = [2.0, 1.0, 0.5, 0.1, 0.01]
zoomLevels == <<R(2), R(1), <<1, 2>>, <<1, 10>>, <<1, 100>>>>

\* lines 187-188: <canvas width={600} height={600}>
CanvasWidth == 600
CanvasHeight == 600

\* a plausible slip: the domain taken as [-1, 1], of width 2
ClickToFocusWidthTwo(p, size) == RMul(RSub(RDiv(R(p), R(size)), <<1, 2>>), R(2))

\* lines 115-116: const newX = ((x / canvas.width) - 0.5) * 4
ClickToFocus(p, size) == RMul(RSub(RDiv(R(p), R(size)), <<1, 2>>), R(4))

-----------------------------------------------------------------------------
(* fractalsRenderer.ts: the Julia set.  The pixel-to-plane mapping is      *)
(* exact; the iteration runs in fixed point.                                *)

\* line 27: const maxIter = 100
maxIter == 100

\* lines 21-22: const zx = centerX + ((x / canvas.width) - 0.5) * 4 * radius
juliaMap(center, p, size, radius) ==
    RAdd(center, RMul(RMul(RSub(RDiv(R(p), R(size)), <<1, 2>>), R(4)), radius))

\* line 30: zx2 * zx2 + zy2 * zy2 < 4
juliaInside(z) == FMul(z.x, z.x) + FMul(z.y, z.y) < 4 * FScale

\* lines 31-33: z = z^2 + c, c = -0.8 + 0.156i
juliaStep(z) ==
    [x |-> FMul(z.x, z.x) - FMul(z.y, z.y) - Fix(<<8, 10>>),
     y |-> FMul(2 * z.x, z.y) + Fix(<<156, 1000>>)]

\* lines 25-35: the number of iterations the while loop performs
RECURSIVE juliaIterations(_, _)
juliaIterations(z, iterations) ==
    IF juliaInside(z) /\ iterations < maxIter
    THEN juliaIterations(juliaStep(z), iterations + 1)
    ELSE iterations

\* a plausible slip: the hue spread over the full circle
juliaHueFullCircle(iterations) == RMul(RDiv(R(iterations), R(maxIter)), R(360))

\* line 46: const hue = (iterations / maxIter) * 300
juliaHue(iterations) == RMul(RDiv(R(iterations), R(maxIter)), R(300))

\* lines 39-52: the four bytes written for the pixel
juliaColour(iterations) ==
    IF iterations = maxIter
    THEN <<0, 0, 0, 255>>
    ELSE hsbToRgb(juliaHue(iterations), R(80), R(90)) \o <<255>>

\* a slip: rows and columns exchanged
juliaIndexTransposed(x, y, width) == (x * width + y) * 4

\* a slip: consecutive pixels 3 bytes apart
juliaIndexThreeBytes(x, y, width) == (y * width + x) * 3

\* line 38: const idx = (y * canvas.width + x) * 4
juliaIndex(x, y, width) == (y * width + x) * 4

\* lines 19-52: the body of the double loop, for the pixel (x, y)
drawJuliaPixel(x, y, width, height, centerX, centerY, radius) ==
    LET zx == juliaMap(centerX, x, width, radius)
        zy == juliaMap(centerY, y, height, radius)
        iterations == juliaIterations([x |-> Fix(zx), y |-> Fix(zy)], 0)
    IN  [zx |-> zx, zy |-> zy, iterations |-> iterations,
         idx |-> juliaIndex(x, y, width), rgba |-> juliaColour(iterations)]

-----------------------------------------------------------------------------
(* fractalsRenderer.ts: the Apollonian approximation.                      *)

\* a plausible slip: a circle of radius exactly 1 pruned as well
apollonianStopAtOne(r, depth) == depth <= 0 \/ RLe(r, R(1))

\* line 70: if (depth <= 0 || r < 1) return
apollonianStop(r, depth) == depth <= 0 \/ RLt(r, R(1))

\* a plausible slip: the last level never spawned
apollonianSpawnTooEarly(depth) == depth > 2

\* a plausible slip: children spawned at every depth
apollonianSpawnAlways(depth) == TRUE

\* line 83: if (depth > 1)
apollonianSpawn(depth) == depth > 1

\* line 84: const newR = r * 0.6
apollonianNewR(r) == RMul(r, <<6, 10>>)

\* line 85: const offset = r * 0.4
apollonianOffset(r) == RMul(r, <<4, 10>>)

\* a plausible slip: the colour of this depth set after the circle is stroked
apollonianCircleThenColour(x, y, r, depth) ==
    LET hue == (5 - depth) * 60
    IN  <<BeginPath, Arc(x, y, r), Stroke,
          SetStrokeStyle(hsbToRgb(R(hue), R(80), R(90)))>>

\* lines 73-80: set the stroke colour of this depth and stroke the circle
apollonianCircle(x, y, r, depth) ==
    LET hue == (5 - depth) * 60
    IN  <<SetStrokeStyle(hsbToRgb(R(hue), R(80), R(90))),
          BeginPath, Arc(x, y, r), Stroke>>

\* lines 68-94
RECURSIVE drawApollonianRecursive(_, _, _, _)
drawApollonianRecursive(x, y, r, depth) ==
    IF apollonianStop(r, depth) THEN <<>>
    ELSE IF apollonianSpawn(depth)
         THEN LET newR == apollonianNewR(r)
                  offset == apollonianOffset(r)
              IN  apollonianCircle(x, y, r, depth)
                    \o drawApollonianRecursive(RAdd(x, offset), y, newR, depth - 1)
                    \o drawApollonianRecursive(RSub(x, offset), y, newR, depth - 1)
                    \o drawApollonianRecursive(x, RAdd(y, offset), newR, depth - 1)
                    \o drawApollonianRecursive(x, RSub(y, offset), newR, depth - 1)
         ELSE apollonianCircle(x, y, r, depth)

\* a plausible slip: the radius multiplied where it divides
apollonianStartTimesRadius(centerX, centerY, radius) ==
    LET scale == RDiv(R(300), radius)
    IN  [x |-> RAdd(RMul(centerX, scale), R(300)),
         y |-> RAdd(RMul(centerY, scale), R(300)),
         r |-> RMul(R(100), radius),
         depth |-> 5]

\* lines 108-109: the arguments of the first recursive call
apollonianStart(centerX, centerY, radius) ==
    LET scale == RDiv(R(300), radius)
    IN  [x |-> RAdd(RMul(centerX, scale), R(300)),
         y |-> RAdd(RMul(centerY, scale), R(300)),
         r |-> RDiv(R(100), radius),
         depth |-> 5]

\* lines 104-110
drawApollonianGasket(centerX, centerY, radius) ==
    LET start == apollonianStart(centerX, centerY, radius)
    IN  <<SetLineWidth(1)>>
          \o drawApollonianRecursive(start.x, start.y, start.r, start.depth)

-----------------------------------------------------------------------------
(* fractalsRenderer.ts: the Koch star.  Coordinates are field elements.    *)

\* lines 133-137: the 1/3 and 2/3 division points
kochThird(x1, dx) == QAdd(x1, QDivInt(dx, 3))
kochTwoThirds(x1, dx) == QAdd(x1, QDivInt(QMul(QInt(2), dx), 3))

\* line 141: const px = x3 + (x4 - x3) * 0.5 - (y4 - y3) * Math.sqrt(3) / 6
kochPeakX(x3, y3, x4, y4) ==
    QSub(QAdd(x3, QMul(QSub(x4, x3), QRat(<<1, 2>>))),
         QDivInt(QMul(QSub(y4, y3), Sqrt3), 6))

\* line 142: const py = y3 + (y4 - y3) * 0.5 + (x4 - x3) * Math.sqrt(3) / 6
kochPeakY(x3, y3, x4, y4) ==
    QAdd(QAdd(y3, QMul(QSub(y4, y3), QRat(<<1, 2>>))),
         QDivInt(QMul(QSub(x4, x3), Sqrt3), 6))

\* a plausible slip: the straight segment drawn to its start point
kochSegmentToStart(x1, y1, x2, y2) == <<LineTo(x1, y1)>>

\* lines 124-127: the base case draws the straight segment
kochSegment(x1, y1, x2, y2) == <<LineTo(x2, y2)>>

\* a plausible slip: the final fourth of the subdivision left out
RECURSIVE drawKochLineThreeSegments(_, _, _, _, _)
drawKochLineThreeSegments(x1, y1, x2, y2, depth) ==
    IF depth = 0 THEN kochSegment(x1, y1, x2, y2)
    ELSE LET dx == QSub(x2, x1)
             dy == QSub(y2, y1)
             x3 == kochThird(x1, dx)
             y3 == kochThird(y1, dy)
             x4 == kochTwoThirds(x1, dx)
             y4 == kochTwoThirds(y1, dy)
             px == kochPeakX(x3, y3, x4, y4)
             py == kochPeakY(x3, y3, x4, y4)
         IN  drawKochLineThreeSegments(x1, y1, x3, y3, depth - 1)
               \o drawKochLineThreeSegments(x3, y3, px, py, depth - 1)
               \o drawKochLineThreeSegments(px, py, x4, y4, depth - 1)

\* lines 122-149
RECURSIVE drawKochLine(_, _, _, _, _)
drawKochLine(x1, y1, x2, y2, depth) ==
    IF depth = 0 THEN kochSegment(x1, y1, x2, y2)
    ELSE LET dx == QSub(x2, x1)
             dy == QSub(y2, y1)
             x3 == kochThird(x1, dx)
             y3 == kochThird(y1, dy)
             x4 == kochTwoThirds(x1, dx)
             y4 == kochTwoThirds(y1, dy)
             px == kochPeakX(x3, y3, x4, y4)
             py == kochPeakY(x3, y3, x4, y4)
         IN  drawKochLine(x1, y1, x3, y3, depth - 1)
               \o drawKochLine(x3, y3, px, py, depth - 1)
               \o drawKochLine(px, py, x4, y4, depth - 1)
               \o drawKochLine(x4, y4, x2, y2, depth - 1)

\* lines 165-167: the centre of the star on the canvas
kochCentre(centerX, centerY, radius) ==
    LET scale == RDiv(R(150), radius)
    IN  [x |-> QRat(RAdd(RMul(centerX, scale), R(300))),
         y |-> QRat(RAdd(RMul(centerY, scale), R(300)))]

\* lines 170-177: the 8 vertices, indexed 0..7 as in the code
kochVertices(centerX, centerY, radius) ==
    LET c == kochCentre(centerX, centerY, radius)
        size == QRat(RDiv(R(100), radius))
    IN  [i \in 0..7 |->
            [x |-> QAdd(c.x, QMul(CosEighth(i), size)),
             y |-> QAdd(c.y, QMul(SinEighth(i), size))]]

\* line 185: drawKochLine(..., 3)
kochStarDepth == 3

\* lines 182-186: the edges i = from..7, each from vertex i to vertex (i+1) % 8
RECURSIVE kochEdges(_, _)
kochEdges(vertices, from) ==
    IF from >= 8 THEN <<>>
    ELSE LET start == vertices[from]
             end == vertices[(from + 1) % 8]
         IN  drawKochLine(start.x, start.y, end.x, end.y, kochStarDepth)
               \o kochEdges(vertices, from + 1)

\* lines 159-188
drawKochStar(centerX, centerY, radius) ==
    LET vertices == kochVertices(centerX, centerY, radius)
    IN  <<SetStrokeStyle(hsbToRgb(R(60), R(80), R(90))), SetLineWidth(1),
          BeginPath, MoveTo(vertices[0].x, vertices[0].y)>>
          \o kochEdges(vertices, 0)
          \o <<Stroke>>

-----------------------------------------------------------------------------
(* The Apollonian generator on its own.  A pending call is either the      *)
(* exported drawApollonianGasket, at a focus point a click can produce and *)
(* a zoom level, or drawApollonianRecursive itself, at sampled radii that  *)
(* reach the radius floor at every level.                                  *)

\* pixels clicked, per axis
ClickPixels == {0, 150, 300, 450, 599}

\* starting radii of the direct calls are the halves 0/2 .. MaxHalfRadius/2
MaxHalfRadius == 20

ApollonianCalls ==
    {[called |-> FALSE, fn |-> "drawApollonianGasket",
      x |-> ClickToFocus(px, CanvasWidth), y |-> ClickToFocus(py, CanvasHeight),
      r |-> zoomLevels[z], depth |-> 5] :
        px \in ClickPixels, py \in ClickPixels, z \in DOMAIN zoomLevels}
    \cup
    {[called |-> FALSE, fn |-> "drawApollonianRecursive",
      x |-> R(300), y |-> R(300), r |-> Rat(n, 2), depth |-> d] :
        n \in 0..MaxHalfRadius, d \in 0..5}
    \cup
    {[called |-> FALSE, fn |-> "drawApollonianRecursive",
      x |-> R(300), y |-> R(300), r |-> RDiv(R(100), zoomLevels[z]), depth |-> 5] :
        z \in DOMAIN zoomLevels}

InitApollonian ==
    /\ color = Idle
    /\ pixel = Idle
    /\ focusPoint = [x |-> R(0), y |-> R(0)]
    /\ mouse = Idle
    /\ circles = <<>>
    /\ apCall \in ApollonianCalls
    /\ path = <<>>
    /\ kochCall = Idle
    /\ sizes = Idle
    /\ raster = Idle
    /\ screen = Idle
    /\ thumb = Idle
    /\ run = Idle

CallDrawApollonianGasket ==
    /\ ~apCall.called
    /\ apCall.fn = "drawApollonianGasket"
    /\ apCall' = [apCall EXCEPT !.called = TRUE]
    /\ circles' = drawApollonianGasket(apCall.x, apCall.y, apCall.r)
    /\ UNCHANGED <<color, pixel, focusPoint, mouse, path, kochCall, sizes,
                 raster, screen, thumb, run>>

CallDrawApollonianRecursive ==
    /\ ~apCall.called
    /\ apCall.fn = "drawApollonianRecursive"
    /\ apCall' = [apCall EXCEPT !.called = TRUE]
    /\ circles' = drawApollonianRecursive(apCall.x, apCall.y, apCall.r, apCall.depth)
    /\ UNCHANGED <<color, pixel, focusPoint, mouse, path, kochCall, sizes,
                 raster, screen, thumb, run>>

SpecApollonian ==
    InitApollonian /\ [][CallDrawApollonianGasket \/ CallDrawApollonianRecursive]_vars

-----------------------------------------------------------------------------
(* The Koch generator on its own.  A pending call is either the exported  *)
(* drawKochStar, at a focus point a click can produce and a zoom level, or *)
(* drawKochLine itself between two points of a small integer grid.         *)

\* grid coordinates of the direct calls are 0..MaxCoord
MaxCoord == 2

\* depths of the direct calls are 0..MaxKochDepth
MaxKochDepth == 3

KochCalls ==
    {[called |-> FALSE, fn |-> "drawKochStar",
      x1 |-> QRat(ClickToFocus(px, CanvasWidth)),
      y1 |-> QRat(ClickToFocus(py, CanvasHeight)),
      x2 |-> QInt(0), y2 |-> QInt(0), depth |-> kochStarDepth, zoom |-> z] :
        px \in ClickPixels, py \in ClickPixels, z \in DOMAIN zoomLevels}
    \cup
    {[called |-> FALSE, fn |-> "drawKochLine",
      x1 |-> QInt(a), y1 |-> QInt(b), x2 |-> QInt(c), y2 |-> QInt(d),
      depth |-> n, zoom |-> 0] :
        a \in 0..MaxCoord, b \in 0..MaxCoord, c \in 0..MaxCoord,
        d \in 0..MaxCoord, n \in 0..MaxKochDepth}

InitKoch ==
    /\ color = Idle
    /\ pixel = Idle
    /\ focusPoint = [x |-> R(0), y |-> R(0)]
    /\ mouse = Idle
    /\ circles = <<>>
    /\ apCall = Idle
    /\ path = <<>>
    /\ kochCall \in KochCalls
    /\ sizes = Idle
    /\ raster = Idle
    /\ screen = Idle
    /\ thumb = Idle
    /\ run = Idle

\* the rational a lifted focus coordinate stands for
QToRat(q) == Rat(q[1], q[5])

CallDrawKochStar ==
    /\ ~kochCall.called
    /\ kochCall.fn = "drawKochStar"
    /\ kochCall' = [kochCall EXCEPT !.called = TRUE]
    /\ path' = drawKochStar(QToRat(kochCall.x1), QToRat(kochCall.y1),
                            zoomLevels[kochCall.zoom])
    /\ UNCHANGED <<color, pixel, focusPoint, mouse, circles, apCall, sizes,
                 raster, screen, thumb, run>>

CallDrawKochLine ==
    /\ ~kochCall.called
    /\ kochCall.fn = "drawKochLine"
    /\ kochCall' = [kochCall EXCEPT !.called = TRUE]
    /\ path' = drawKochLine(kochCall.x1, kochCall.y1, kochCall.x2, kochCall.y2,
                            kochCall.depth)
    /\ UNCHANGED <<color, pixel, focusPoint, mouse, circles, apCall, sizes,
                 raster, screen, thumb, run>>

SpecKoch == InitKoch /\ [][CallDrawKochStar \/ CallDrawKochLine]_vars

-----------------------------------------------------------------------------
(* Claims about the Apollonian generator.                                 *)

\* the positions of the operations named `name` in a log
Ops(calls, name) == {i \in DOMAIN calls : calls[i].op = name}

\* the arcs that are stroked as circles of their own: beginPath, arc, stroke
StrokedArcs(calls) ==
    {i \in 2..(Len(calls) - 1) :
        /\ calls[i].op = "arc"
        /\ calls[i - 1].op = "beginPath"
        /\ calls[i + 1].op = "stroke"}

RECURSIVE RPow(_, _)
RPow(q, k) == IF k = 0 THEN R(1) ELSE RMul(q, RPow(q, k - 1))

RECURSIVE Pow(_, _)
Pow(n, k) == IF k = 0 THEN 1 ELSE n * Pow(n, k - 1)

\* the sum of 4^k over the levels k in S
RECURSIVE SumPow4(_)
SumPow4(S) ==
    IF S = {} THEN 0
    ELSE LET k == CHOOSE k \in S : TRUE IN Pow(4, k) + SumPow4(S \ {k})

\* the radius of the outermost circle of the call made
StartRadius ==
    IF apCall.fn = "drawApollonianRecursive" THEN apCall.r
    ELSE RDiv(R(100), apCall.r)

\* the radius the recurrence gives a circle k levels below the outermost
LevelRadius(k) == RMul(StartRadius, RPow(<<6, 10>>, k))

ArcsOfLevel(k) ==
    LET rk == LevelRadius(k)
    IN  {i \in StrokedArcs(circles) : circles[i].r = rk}

\* C1: a depth-5 call whose level-4 radius is still at least 1 strokes
\* exactly 341 circles, 4^k of them at level k = 0..4; drawApollonianGasket
\* does so at every zoom radius.
C1_FullDepthCount ==
    (apCall.called /\ apCall.depth = 5 /\ RLe(R(1), LevelRadius(4)))
        => /\ Cardinality(Ops(circles, "stroke")) = 341
           /\ Cardinality(StrokedArcs(circles)) = 341
           /\ \A k \in 0..4 : Cardinality(ArcsOfLevel(k)) = Pow(4, k)

C1_GasketCount ==
    (apCall.called /\ apCall.fn = "drawApollonianGasket")
        => /\ RLe(R(1), LevelRadius(4))
           /\ Cardinality(StrokedArcs(circles)) = 341

C1_Theorem == C1_FullDepthCount /\ C1_GasketCount

\* a direct call just above the floor (8 * 0.6^4 = 1.0368) that stroked 341
C1_Witness ==
    /\ apCall.called /\ apCall.fn = "drawApollonianRecursive"
    /\ apCall.depth = 5 /\ apCall.r = R(8)
    /\ Cardinality(StrokedArcs(circles)) = 341

\* the levels of a depth-5 call whose radius is not below the floor
LevelsAboveFloor == {k \in 0..4 : RLe(R(1), LevelRadius(k))}

\* C9: no circle of radius < 1 is ever stroked; a call with r < 1 or
\* depth <= 0 performs nothing; a depth-5 call strokes 4^k circles for each
\* level k whose radius r0 * 0.6^k is at least 1, and none when r0 < 1.
C9_RadiusFloor ==
    apCall.called
        => /\ \A i \in Ops(circles, "arc") : ~RLt(circles[i].r, R(1))
           /\ Ops(circles, "stroke") = {i + 1 : i \in StrokedArcs(circles)}
           /\ (RLt(StartRadius, R(1)) \/ apCall.depth <= 0) => circles = <<>>
           /\ apCall.depth = 5 =>
                 Cardinality(Ops(circles, "stroke"))
                    = SumPow4(LevelsAboveFloor)

\* a depth-5 call from r0 = 2.5: levels 0 and 1 are drawn (2.5, 1.5), level 2
\* (0.9) is pruned
C9_Witness ==
    /\ apCall.called /\ apCall.fn = "drawApollonianRecursive"
    /\ apCall.depth = 5 /\ apCall.r = <<5, 2>>
    /\ Cardinality(Ops(circles, "stroke")) = 5

\* the arcs of the call, in the order they were stroked
ArcsInOrder == SelectSeq(circles, LAMBDA c : c.op = "arc")

\* the centre of the outermost circle
StartCentreX ==
    IF apCall.fn = "drawApollonianRecursive" THEN apCall.x
    ELSE RAdd(RMul(apCall.x, RDiv(R(300), apCall.r)), R(300))

StartCentreY ==
    IF apCall.fn = "drawApollonianRecursive" THEN apCall.y
    ELSE RAdd(RMul(apCall.y, RDiv(R(300), apCall.r)), R(300))

\* the number of levels drawn: those of the depth whose radius is at least 1
LevelsDrawn ==
    Cardinality({k \in 0..(apCall.depth - 1) : RLe(R(1), LevelRadius(k))})

\* the number of circles of a full subtree of m levels
SubtreeSize(m) == (Pow(4, m) - 1) \div 3

\* the level of a circle, read off its radius
LevelOf(arc) == CHOOSE k \in 0..4 : arc.r = LevelRadius(k)

\* the child of a circle in direction c = 1..4: right, left, bottom, top
ChildOf(arc, c) ==
    LET offset == RMul(arc.r, <<4, 10>>)
        newR == RMul(arc.r, <<6, 10>>)
    IN  CASE c = 1 -> Arc(RAdd(arc.x, offset), arc.y, newR)
          [] c = 2 -> Arc(RSub(arc.x, offset), arc.y, newR)
          [] c = 3 -> Arc(arc.x, RAdd(arc.y, offset), newR)
          [] c = 4 -> Arc(arc.x, RSub(arc.y, offset), newR)

\* C15, the colour: every stroke comes right after the assignment of a stroke
\* colour, a beginPath and the arc of the circle, and the colour assigned is
\* that of the circle's own depth, hsbToRgb((5 - depth) * 60, 80, 90).
C15_OwnColour ==
    apCall.called =>
        \A i \in Ops(circles, "stroke") :
            /\ i >= 4
            /\ circles[i - 1].op = "arc"
            /\ circles[i - 2].op = "beginPath"
            /\ circles[i - 3].op = "strokeStyle"
            /\ LET depth == apCall.depth - LevelOf(circles[i - 1])
               IN  circles[i - 3].v = hsbToRgb(R((5 - depth) * 60), R(80), R(90))

\* C15, the order: the first circle is the outermost one; the circle at
\* place n, if its level is not the last one drawn, is followed by the
\* subtrees of its four children, right, left, bottom, top, each as long as a
\* full subtree of the levels that remain.
C15_PreOrder ==
    (apCall.called /\ circles # <<>>) =>
        LET arcs == ArcsInOrder
            levels == LevelsDrawn
        IN  /\ Len(arcs) = SubtreeSize(levels)
            /\ arcs[1] = Arc(StartCentreX, StartCentreY, StartRadius)
            /\ \A n \in 1..Len(arcs) :
                  LET below == levels - LevelOf(arcs[n]) - 1
                  IN  below >= 1 =>
                         \A c \in 1..4 :
                            arcs[n + 1 + (c - 1) * SubtreeSize(below)]
                               = ChildOf(arcs[n], c)

C15_ColourAndOrder == C15_OwnColour /\ C15_PreOrder

\* a gasket of 341 circles: the outermost is red (hue 0), its right child,
\* stroked second, is yellow (hue 60), and its left child is stroked 87th
C15_Witness ==
    /\ apCall.called /\ apCall.fn = "drawApollonianGasket"
    /\ Len(ArcsInOrder) = 341
    /\ circles[2].v = hsbToRgb(R(0), R(80), R(90))
    /\ circles[6].v = hsbToRgb(R(60), R(80), R(90))
    /\ ArcsInOrder[2] = ChildOf(ArcsInOrder[1], 1)
    /\ ArcsInOrder[87] = ChildOf(ArcsInOrder[1], 2)

-----------------------------------------------------------------------------
(* Claims about the Koch generator.                                       *)

\* C2: drawKochLine at depth d performs exactly 4^d lineTo calls and
\* nothing else; at depth 0 it is the single lineTo to (x2, y2).
C2_SegmentCount ==
    (kochCall.called /\ kochCall.fn = "drawKochLine")
        => /\ Len(path) = Pow(4, kochCall.depth)
           /\ \A i \in DOMAIN path : path[i].op = "lineTo"
           /\ kochCall.depth = 0 => path = <<LineTo(kochCall.x2, kochCall.y2)>>

C2_Witness ==
    /\ kochCall.called /\ kochCall.fn = "drawKochLine" /\ kochCall.depth = 3
    /\ kochCall.x1 # kochCall.x2
    /\ Len(path) = 64

\* the squared distance of two points
DistSq(p, q) ==
    LET dx == QSub(p.x, q.x)
        dy == QSub(p.y, q.y)
    IN  QAdd(QMul(dx, dx), QMul(dy, dy))

\* The top-level subdivision of a drawKochLine call of depth d >= 1 is
\* visible in what it draws: the four sub-curves end at P1, at the peak, at
\* P2 and at the end point, each after 4^(d-1) lineTo calls.
SubCurveEnd(calls, first, depth, k) == calls[first + k * Pow(4, depth - 1) - 1]

\* C3 as claimed: the peak is the apex of an equilateral triangle on the
\* middle third, so peak-P1, peak-P2 and P1-P2 are equally long.
C3_Equilateral ==
    (kochCall.called /\ kochCall.fn = "drawKochLine" /\ kochCall.depth >= 1)
        => LET P1 == SubCurveEnd(path, 1, kochCall.depth, 1)
               peak == SubCurveEnd(path, 1, kochCall.depth, 2)
               P2 == SubCurveEnd(path, 1, kochCall.depth, 3)
           IN  /\ DistSq(peak, P1) = DistSq(P1, P2)
               /\ DistSq(peak, P2) = DistSq(P1, P2)

\* What the code draws instead: P1 and P2 are the division points, and the
\* peak is the apex of an isosceles triangle on them whose legs are
\* 1/sqrt(3) of the base (height sqrt(3)/6 of the base, not sqrt(3)/2).
C3_AsCoded ==
    (kochCall.called /\ kochCall.fn = "drawKochLine" /\ kochCall.depth >= 1)
        => LET P1 == SubCurveEnd(path, 1, kochCall.depth, 1)
               peak == SubCurveEnd(path, 1, kochCall.depth, 2)
               P2 == SubCurveEnd(path, 1, kochCall.depth, 3)
               three == QInt(3)
           IN  /\ QMul(three, QSub(P1.x, kochCall.x1)) = QSub(kochCall.x2, kochCall.x1)
               /\ QMul(three, QSub(kochCall.x2, P2.x)) = QSub(kochCall.x2, kochCall.x1)
               /\ QMul(three, DistSq(peak, P1)) = DistSq(P1, P2)
               /\ QMul(three, DistSq(peak, P2)) = DistSq(P1, P2)

\* The sign (-1, 0, 1) of a field element, decided exactly by squaring.
Sgn(n) == IF n > 0 THEN 1 ELSE IF n < 0 THEN -1 ELSE 0

\* the sign of u + v*sqrt 2
SignRoot2(u, v) ==
    IF u >= 0 /\ v >= 0 THEN Sgn(u + v)
    ELSE IF u <= 0 /\ v <= 0 THEN -1
    ELSE IF u > 0 THEN Sgn(u * u - 2 * v * v)
    ELSE Sgn(2 * v * v - u * u)

\* the sign of (a + b*sqrt 2) + (c + d*sqrt 2)*sqrt 3
QSign(q) ==
    LET a == q[1]  b == q[2]  c == q[3]  d == q[4]
        sp == SignRoot2(a, b)
        sq == SignRoot2(c, d)
        \* p^2 - 3 q^2 as u + v*sqrt 2
        u == (a * a + 2 * b * b) - 3 * (c * c + 2 * d * d)
        v == 2 * a * b - 6 * c * d
    IN  IF sp >= 0 /\ sq >= 0 THEN Sgn(sp + sq)
        ELSE IF sp <= 0 /\ sq <= 0 THEN -1
        ELSE IF sp > 0 THEN SignRoot2(u, v)
        ELSE SignRoot2(-u, -v)

\* A vector scaled by a positive rational so that its coordinates are
\* integer combinations of 1, sqrt 2, sqrt 3, sqrt 6 without a common
\* factor: the direction is kept, the numbers are small.
Primitive(vx, vy) ==
    LET l == LCM(vx[5], vy[5])
        u == l \div vx[5]
        w == l \div vy[5]
        g == GCD(GCD(GCD(GCD(Abs(vx[1]) * u, Abs(vx[2]) * u),
                         GCD(Abs(vx[3]) * u, Abs(vx[4]) * u)),
                     GCD(Abs(vy[1]) * w, Abs(vy[2]) * w)),
                 GCD(Abs(vy[3]) * w, Abs(vy[4]) * w))
        h == IF g = 0 THEN 1 ELSE g
    IN  [x |-> <<(vx[1] * u) \div h, (vx[2] * u) \div h,
                 (vx[3] * u) \div h, (vx[4] * u) \div h, 1>>,
         y |-> <<(vy[1] * w) \div h, (vy[2] * w) \div h,
                 (vy[3] * w) \div h, (vy[4] * w) \div h, 1>>]

\* the sign of the scalar product of the vectors a -> b and c -> d
DotSign(a, b, c, d) ==
    LET v == Primitive(QSub(b.x, a.x), QSub(b.y, a.y))
        w == Primitive(QSub(d.x, c.x), QSub(d.y, c.y))
    IN  QSign(QAdd(QMul(v.x, w.x), QMul(v.y, w.y)))

Midpoint(p, q) ==
    [x |-> QDivInt(QAdd(p.x, q.x), 2), y |-> QDivInt(QAdd(p.y, q.y), 2)]

\* What one drawKochStar call draws: its operations 1..4 set the style and
\* open the path at vertex 0, and edge i = 0..7 is the lineTo calls
\* EdgeFirst(i) .. EdgeLast(i).
EdgeLength == Pow(4, kochStarDepth)
EdgeFirst(i) == 5 + i * EdgeLength
EdgeLast(i) == 4 + (i + 1) * EdgeLength

\* the vertex an edge starts from, as drawn
EdgeStart(i) == IF i = 0 THEN path[4] ELSE path[EdgeLast(i - 1)]

\* the centre of the star: the midpoint of the opposite vertices 0 and 4
StarCentre == Midpoint(path[4], path[EdgeLast(3)])

\* C4 as claimed: on each of the 8 edges the peak of the top-level bump
\* points outward: seen from the midpoint of the edge it lies away from the
\* centre of the star.
C4_BumpOutward ==
    (kochCall.called /\ kochCall.fn = "drawKochStar")
        => \A i \in 0..7 :
              LET mid == Midpoint(EdgeStart(i), path[EdgeLast(i)])
                  peak == SubCurveEnd(path, EdgeFirst(i), kochStarDepth, 2)
              IN  DotSign(mid, peak, StarCentre, mid) > 0

\* What the code draws instead: every peak lies on the centre's side.
C4_AsCoded ==
    (kochCall.called /\ kochCall.fn = "drawKochStar")
        => \A i \in 0..7 :
              LET mid == Midpoint(EdgeStart(i), path[EdgeLast(i)])
                  peak == SubCurveEnd(path, EdgeFirst(i), kochStarDepth, 2)
              IN  DotSign(mid, peak, StarCentre, mid) < 0

\* C10: one drawKochStar call performs one beginPath, one moveTo to
\* vertex 0, 8 * 4^3 = 512 lineTo calls and one stroke, in this order and
\* with nothing in between; each edge ends exactly on its end vertex and
\* the figure ends exactly on vertex 0, where it began.
C10_SinglePath ==
    (kochCall.called /\ kochCall.fn = "drawKochStar")
        => LET vertices == kochVertices(QToRat(kochCall.x1), QToRat(kochCall.y1),
                                        zoomLevels[kochCall.zoom])
           IN  /\ Len(path) = 4 + 512 + 1
               /\ Ops(path, "beginPath") = {3}
               /\ Ops(path, "moveTo") = {4}
               /\ Ops(path, "lineTo") = 5..516
               /\ Ops(path, "stroke") = {517}
               /\ path[4] = MoveTo(vertices[0].x, vertices[0].y)
               /\ \A i \in 0..7 :
                     path[EdgeLast(i)] =
                        LineTo(vertices[(i + 1) % 8].x, vertices[(i + 1) % 8].y)
               /\ path[516].x = path[4].x /\ path[516].y = path[4].y

\* a star drawn off centre at the deepest zoom, closed on its first vertex
C10_Witness ==
    /\ kochCall.called /\ kochCall.fn = "drawKochStar" /\ kochCall.zoom = 5
    /\ kochCall.x1 # QInt(0)
    /\ Len(path) = 517
    /\ path[517].op = "stroke"
    /\ path[516] = LineTo(path[4].x, path[4].y)

-----------------------------------------------------------------------------
(* Zooming a shape: after one click, the two recursive generators are     *)
(* rendered twice, at any two zoom levels.  Of each render the shape, the  *)
(* radius parameter and the feature size it drew are kept.                 *)

\* the radius of the outermost circle drawn: operation 1 sets the line
\* width, 2..5 stroke the first circle
ApollonianFeature(calls) == QRat(calls[4].r)

\* the distance of vertex 0 from the centre of the star, as drawn
KochFeature(calls) ==
    QSub(calls[4].x, Midpoint(calls[4], calls[4 + 4 * Pow(4, kochStarDepth)]).x)

\* the pixel clicked, on the diagonal of the canvas
ZoomClicks == {300, 450}

ZoomRequests ==
    {[shape |-> sh, zoom |-> z] : sh \in {"apollonian", "koch"}, z \in DOMAIN zoomLevels}

InitZoom ==
    /\ color = Idle
    /\ pixel = Idle
    /\ focusPoint = [x |-> R(0), y |-> R(0)]
    /\ mouse = Idle
    /\ circles = <<>>
    /\ apCall = Idle
    /\ path = <<>>
    /\ kochCall = Idle
    /\ \E p \in ZoomClicks, first \in ZoomRequests, second \in ZoomRequests :
          sizes = [focus |-> ClickToFocus(p, CanvasWidth),
                   pending |-> <<first, second>>, drawn |-> <<>>]
    /\ raster = Idle
    /\ screen = Idle
    /\ thumb = Idle
    /\ run = Idle

RenderApollonian ==
    /\ sizes.pending # <<>>
    /\ Head(sizes.pending).shape = "apollonian"
    /\ LET radius == zoomLevels[Head(sizes.pending).zoom]
           calls == drawApollonianGasket(sizes.focus, sizes.focus, radius)
       IN  sizes' = [sizes EXCEPT
                       !.pending = Tail(@),
                       !.drawn = Append(@, [shape |-> "apollonian", radius |-> radius,
                                            size |-> ApollonianFeature(calls)])]
    /\ UNCHANGED <<color, pixel, focusPoint, mouse, circles, apCall, path, kochCall,
                 raster, screen, thumb, run>>

RenderKoch ==
    /\ sizes.pending # <<>>
    /\ Head(sizes.pending).shape = "koch"
    /\ LET radius == zoomLevels[Head(sizes.pending).zoom]
           calls == drawKochStar(sizes.focus, sizes.focus, radius)
       IN  sizes' = [sizes EXCEPT
                       !.pending = Tail(@),
                       !.drawn = Append(@, [shape |-> "koch", radius |-> radius,
                                            size |-> KochFeature(calls)])]
    /\ UNCHANGED <<color, pixel, focusPoint, mouse, circles, apCall, path, kochCall,
                 raster, screen, thumb, run>>

SpecZoom == InitZoom /\ [][RenderApollonian \/ RenderKoch]_vars

\* C5 as claimed: of two renders of the same shape, the one at the smaller
\* radius draws the smaller feature.
C5_ShrinksWithRadius ==
    \A i, j \in DOMAIN sizes.drawn :
        LET a == sizes.drawn[i]
            b == sizes.drawn[j]
        IN  (a.shape = b.shape /\ RLt(a.radius, b.radius))
                => QSign(QSub(a.size, b.size)) < 0

\* C5 as amended: of two renders of the same shape, the one at the smaller
\* radius draws the larger feature (zooming in enlarges the shape).
C5_GrowsAsRadiusShrinks ==
    \A i, j \in DOMAIN sizes.drawn :
        LET a == sizes.drawn[i]
            b == sizes.drawn[j]
        IN  (a.shape = b.shape /\ RLt(a.radius, b.radius))
                => QSign(QSub(a.size, b.size)) > 0

\* the star rendered at radius 2.0 (vertex radius 50) and then at radius
\* 0.01 (vertex radius 10000)
C5_Witness ==
    sizes.drawn =
        <<[shape |-> "koch", radius |-> R(2), size |-> QInt(50)],
          [shape |-> "koch", radius |-> <<1, 100>>, size |-> QInt(10000)]>>

-----------------------------------------------------------------------------
(* The Julia generator, one pixel at a time, with the click handler.  A   *)
(* pending pixel is a pixel of the canvas and a zoom level; it is computed *)
(* around the focus point in force, which a click may have moved before.   *)

\* pixels are sampled every PixelStride along each axis, and the last one
PixelStride == 30

JuliaPixels(size) ==
    {k * PixelStride : k \in 0..((size - 1) \div PixelStride)} \cup {size - 1}

InitJulia ==
    /\ color = Idle
    /\ \E x \in JuliaPixels(CanvasWidth), y \in JuliaPixels(CanvasHeight),
          z \in DOMAIN zoomLevels :
          pixel = [called |-> FALSE, x |-> x, y |-> y, zoom |-> z]
    /\ focusPoint = [x |-> R(0), y |-> R(0)]
    /\ mouse = Idle
    /\ circles = <<>>
    /\ apCall = Idle
    /\ path = <<>>
    /\ kochCall = Idle
    /\ sizes = Idle
    /\ raster = Idle
    /\ screen = Idle
    /\ thumb = Idle
    /\ run = Idle

\* fractalsPlayground.tsx lines 106-119, for a click on the pending pixel or
\* on the centre of the canvas
handleCanvasClick ==
    /\ ~mouse.called
    /\ \E p \in {<<pixel.x, pixel.y>>, <<CanvasWidth \div 2, CanvasHeight \div 2>>} :
          /\ mouse' = [called |-> TRUE, x |-> p[1], y |-> p[2]]
          /\ focusPoint' = [x |-> ClickToFocus(p[1], CanvasWidth),
                            y |-> ClickToFocus(p[2], CanvasHeight)]
    /\ UNCHANGED <<color, pixel, circles, apCall, path, kochCall, sizes,
                 raster, screen, thumb, run>>

CallDrawJuliaPixel ==
    /\ ~pixel.called
    /\ pixel' = [called |-> TRUE, x |-> pixel.x, y |-> pixel.y, zoom |-> pixel.zoom,
                 center |-> focusPoint,
                 out |-> drawJuliaPixel(pixel.x, pixel.y, CanvasWidth, CanvasHeight,
                                        focusPoint.x, focusPoint.y,
                                        zoomLevels[pixel.zoom])]
    /\ UNCHANGED <<color, focusPoint, mouse, circles, apCall, path, kochCall, sizes,
                 raster, screen, thumb, run>>

SpecJulia == InitJulia /\ [][handleCanvasClick \/ CallDrawJuliaPixel]_vars

\* whether a point of the plane has left the disc of radius 2
Escaped(z) == FMul(z.x, z.x) + FMul(z.y, z.y) >= 4 * FScale

\* the orbit z_0, z_1, ... of a point, up to its first point outside the disc
\* and of n + 1 points at most
RECURSIVE OrbitFrom(_, _)
OrbitFrom(z, n) ==
    IF n = 0 \/ Escaped(z) THEN <<z>> ELSE <<z>> \o OrbitFrom(juliaStep(z), n - 1)

\* z_0 .. z_99 of the pixel computed, z_0 its mapped coordinate
Orbit == OrbitFrom([x |-> Fix(pixel.out.zx), y |-> Fix(pixel.out.zy)], maxIter - 1)

\* the orbit points, counted from 0, that have left the disc
Escapes(orbit) == {n \in 0..(Len(orbit) - 1) : Escaped(orbit[n + 1])}

Least(S) == CHOOSE n \in S : \A m \in S : n <= m

C6_BlackReached ==
    pixel.called /\ pixel.out.iterations = 100 /\ pixel.out.rgba = <<0, 0, 0, 255>>

\* C8: the focus point a click on a pixel sets is the coordinate that
\* drawJuliaSet, centred on the origin at radius 1, gives that pixel.
C8_ClickRoundTrip ==
    (/\ pixel.called /\ mouse.called
     /\ pixel.center = [x |-> R(0), y |-> R(0)]
     /\ zoomLevels[pixel.zoom] = R(1)
     /\ mouse.x = pixel.x /\ mouse.y = pixel.y)
        => (focusPoint.x = pixel.out.zx /\ focusPoint.y = pixel.out.zy)

\* the last pixel of the second row of samples, rendered and then clicked
C8_Witness ==
    /\ pixel.called /\ mouse.called
    /\ pixel.center = [x |-> R(0), y |-> R(0)]
    /\ zoomLevels[pixel.zoom] = R(1)
    /\ pixel.x = CanvasWidth - 1 /\ pixel.y = PixelStride
    /\ mouse.x = pixel.x /\ mouse.y = pixel.y
    /\ focusPoint.x = pixel.out.zx /\ focusPoint.y = pixel.out.zy
    /\ focusPoint.x # R(0)

-----------------------------------------------------------------------------
(* drawJuliaSet as the loops run: one step per pixel, in the order of the  *)
(* code (x outside, y inside), then the single putImageData.  The canvas   *)
(* is small, and of any shape; the surface starts without an image.        *)

\* the largest width and height of the canvas
MaxSide == 3

\* the focus points: the origin, and the point a click at (450, 450) sets
FocusPoints == {R(0), ClickToFocus(450, CanvasWidth)}

\* line 14: createImageData gives width * height * 4 bytes of transparent black
createImageData(width, height) == [i \in 0..(width * height * 4 - 1) |-> 0]

\* lines 38-52: data[idx .. idx + 3] = r, g, b, 255; a write outside the
\* array is ignored, as a typed array ignores it
writeByte(data, i, v) == IF i \in DOMAIN data THEN [data EXCEPT ![i] = v] ELSE data

writePixel(data, idx, rgba) ==
    writeByte(writeByte(writeByte(writeByte(data, idx, rgba[1]),
                                  idx + 1, rgba[2]),
                        idx + 2, rgba[3]),
              idx + 3, rgba[4])

InitJuliaSet ==
    /\ color = Idle
    /\ pixel = Idle
    /\ \E c \in FocusPoints : focusPoint = [x |-> c, y |-> c]
    /\ mouse = Idle
    /\ circles = <<>>
    /\ apCall = Idle
    /\ path = <<>>
    /\ kochCall = Idle
    /\ sizes = Idle
    /\ \E width \in 1..MaxSide, height \in 1..MaxSide, z \in DOMAIN zoomLevels :
          raster = [called |-> TRUE, width |-> width, height |-> height,
                    radius |-> zoomLevels[z], x |-> 0, y |-> 0,
                    data |-> createImageData(width, height),
                    written |-> <<>>, puts |-> 0, shown |-> <<>>]
    /\ screen = Idle
    /\ thumb = Idle
    /\ run = Idle

\* lines 19-53: one pass of the inner loop body, and the loop counters
JuliaSetPixel ==
    /\ raster.x < raster.width
    /\ raster.puts = 0
    /\ \E out \in {drawJuliaPixel(raster.x, raster.y, raster.width, raster.height,
                                   focusPoint.x, focusPoint.y, raster.radius)} :
       LET last == raster.y + 1 = raster.height
       IN  raster' = [raster EXCEPT
                        !.data = writePixel(@, out.idx, out.rgba),
                        !.written = Append(@, out.idx),
                        !.y = IF last THEN 0 ELSE @ + 1,
                        !.x = IF last THEN @ + 1 ELSE @]
    /\ UNCHANGED <<color, pixel, focusPoint, mouse, circles, apCall, path, kochCall,
                   sizes, screen, thumb, run>>

\* line 56: ctx.putImageData(imageData, 0, 0), after the loops
JuliaSetPutImageData ==
    /\ raster.x = raster.width
    /\ raster.puts = 0
    /\ raster' = [raster EXCEPT !.puts = @ + 1, !.shown = raster.data]
    /\ UNCHANGED <<color, pixel, focusPoint, mouse, circles, apCall, path, kochCall,
                   sizes, screen, thumb, run>>

SpecJuliaSet == InitJuliaSet /\ [][JuliaSetPixel \/ JuliaSetPutImageData]_vars

\* the pixels of the canvas
PixelsOf(r) == (0..(r.width - 1)) \X (0..(r.height - 1))

\* the pixels the loops have passed
PixelsDone(r) == {p \in PixelsOf(r) : p[1] < r.x \/ (p[1] = r.x /\ p[2] < r.y)}

\* C11: every pixel is written once: the pixels passed so far have been
\* written at distinct indexes (y * width + x) * 4 inside the buffer, each with
\* alpha 255; putImageData happens at most once, only when all pixels have
\* been written, and shows the buffer as completed.
C11_OneBatchedUpdate ==
    LET r == raster
    IN  /\ Len(r.written) = Cardinality(PixelsDone(r))
        /\ \A i, j \in DOMAIN r.written : r.written[i] = r.written[j] => i = j
        /\ {r.written[i] : i \in DOMAIN r.written}
              = {(p[2] * r.width + p[1]) * 4 : p \in PixelsDone(r)}
        /\ \A i \in DOMAIN r.written :
              /\ r.written[i] >= 0
              /\ r.written[i] + 3 <= r.width * r.height * 4 - 1
              /\ r.data[r.written[i] + 3] = 255
        /\ r.puts <= 1
        /\ r.puts = 1 =>
              /\ PixelsDone(r) = PixelsOf(r)
              /\ r.shown = r.data
              /\ \A p \in PixelsOf(r) : r.shown[(p[2] * r.width + p[1]) * 4 + 3] = 255
        /\ r.puts = 0 => r.shown = <<>>

\* a 3 x 2 canvas after its putImageData: 6 pixels written, all opaque
C11_Witness ==
    /\ raster.called /\ raster.puts = 1
    /\ raster.width = 3 /\ raster.height = 2
    /\ Len(raster.written) = 6
    /\ \A k \in 0..5 : raster.shown[4 * k + 3] = 255
    /\ \E k \in 0..5 : raster.shown[4 * k] # 0

-----------------------------------------------------------------------------
(* The pixels of drawJuliaSet computed out of order.  Every row of the     *)
(* canvas is owned by one worker; a worker computes any pixel of its rows  *)
(* that is still missing, and the workers interleave freely.  With one     *)
(* owner for all rows this is the computation in an arbitrary order.  The  *)
(* buffer of the sequential loop is computed at the start, for comparison. *)

\* the largest number of rows of the canvas
MaxRows == 3

\* the widths of the canvas
Widths == {1, 2}

Workers == {1, 2}

\* the zoom levels tried: radius 2.0 and radius 0.5
WorkerZooms == {1, 3}

\* lines 18-54: the buffer the double loop leaves, the pixels taken in the
\* order of the code from (x, y) on
RECURSIVE juliaSetData(_, _, _, _, _, _, _, _)
juliaSetData(data, x, y, width, height, centerX, centerY, radius) ==
    IF x >= width THEN data
    ELSE IF y >= height
         THEN juliaSetData(data, x + 1, 0, width, height, centerX, centerY, radius)
         ELSE LET out == drawJuliaPixel(x, y, width, height, centerX, centerY, radius)
              IN  juliaSetData(writePixel(data, out.idx, out.rgba), x, y + 1,
                               width, height, centerX, centerY, radius)

InitWorkers ==
    /\ color = Idle
    /\ pixel = Idle
    /\ focusPoint = [x |-> R(0), y |-> R(0)]
    /\ mouse = Idle
    /\ circles = <<>>
    /\ apCall = Idle
    /\ path = <<>>
    /\ kochCall = Idle
    /\ sizes = Idle
    /\ \E width \in Widths, height \in 1..MaxRows, z \in WorkerZooms :
          \E owner \in [0..(height - 1) -> Workers] :
              raster = [called |-> TRUE, width |-> width, height |-> height,
                        radius |-> zoomLevels[z], owner |-> owner,
                        data |-> createImageData(width, height), done |-> {},
                        sequential |->
                            juliaSetData(createImageData(width, height), 0, 0,
                                         width, height, R(0), R(0), zoomLevels[z])]
    /\ screen = Idle
    /\ thumb = Idle
    /\ run = Idle

\* lines 19-53, for one pixel of a row of the worker
WorkerPixel(w) ==
    \E p \in PixelsOf(raster) \ raster.done :
        /\ raster.owner[p[2]] = w
        /\ \E out \in {drawJuliaPixel(p[1], p[2], raster.width, raster.height,
                                       focusPoint.x, focusPoint.y, raster.radius)} :
               raster' = [raster EXCEPT
                            !.data = writePixel(@, out.idx, out.rgba),
                            !.done = @ \cup {p}]
        /\ UNCHANGED <<color, pixel, focusPoint, mouse, circles, apCall, path,
                       kochCall, sizes, screen, thumb, run>>

SpecWorkers == InitWorkers /\ [][\E w \in Workers : WorkerPixel(w)]_vars

\* the buffer of the sequential double loop for the same call, kept from the
\* start for comparison
SequentialData == raster.sequential

\* C16: whatever the order and the interleaving, a pixel that has been
\* computed holds the four bytes the sequential loop gives it, a pixel not
\* yet computed is untouched, and so the completed buffer is the sequential
\* one.
C16_OrderIndependent ==
    LET seq == SequentialData
    IN  /\ \A p \in PixelsOf(raster) :
              LET idx == (p[2] * raster.width + p[1]) * 4
              IN  \A k \in 0..3 :
                     raster.data[idx + k]
                        = IF p \in raster.done THEN seq[idx + k] ELSE 0
        /\ raster.done = PixelsOf(raster) => raster.data = seq

\* a 2 x 3 canvas completed by two workers, both of which own rows, with
\* pixels of different colours
C16_Witness ==
    /\ raster.called
    /\ raster.width = 2 /\ raster.height = 3
    /\ raster.done = PixelsOf(raster)
    /\ {raster.owner[y] : y \in 0..2} = Workers
    /\ raster.data = SequentialData
    /\ \E i, j \in 0..5 : raster.data[4 * i] # raster.data[4 * j]

-----------------------------------------------------------------------------
(* The playground: the selected fractal, the zoom level and the focus      *)
(* point, the 2D context of the main canvas and what the canvas shows.     *)
(* Every handler sets its piece of state, and the effect on drawFractal    *)
(* then redraws.                                                            *)
(*                                                                         *)
(* The surface is the list of marks visible on the canvas, oldest first.   *)
(* An opaque fillRect over the whole canvas and a putImageData of a whole  *)
(* image leave nothing of what was there; a stroke adds the current path   *)
(* in the current stroke colour and line width.  The context keeps its     *)
(* attributes and its current path from one render to the next.            *)

Black == <<0, 0, 0>>

SetFillStyle(rgb) == [op |-> "fillStyle", v |-> rgb]
FillRect(x, y, w, h) == [op |-> "fillRect", x |-> x, y |-> y, w |-> w, h |-> h]
PutImageData(image) == [op |-> "putImageData", image |-> image]

\* a context as getContext('2d') first gives it, on an empty canvas
FreshCanvas ==
    [ctx |-> [fillStyle |-> Black, strokeStyle |-> Black, lineWidth |-> 1, path |-> <<>>],
     surface |-> <<>>]

\* whether a rectangle covers the canvas
CoversCanvas(op) ==
    /\ op.x <= 0 /\ op.y <= 0
    /\ op.x + op.w >= CanvasWidth /\ op.y + op.h >= CanvasHeight

\* the effect of one operation on the context and the surface
canvasApply(c, op) ==
    CASE op.op = "fillStyle" -> [c EXCEPT !.ctx.fillStyle = op.v]
      [] op.op = "strokeStyle" -> [c EXCEPT !.ctx.strokeStyle = op.v]
      [] op.op = "lineWidth" -> [c EXCEPT !.ctx.lineWidth = op.v]
      [] op.op = "beginPath" -> [c EXCEPT !.ctx.path = <<>>]
      [] op.op \in {"arc", "moveTo", "lineTo"} -> [c EXCEPT !.ctx.path = Append(@, op)]
      [] op.op = "stroke" ->
            [c EXCEPT !.surface =
                Append(@, [mark |-> "stroke", style |-> c.ctx.strokeStyle,
                           width |-> c.ctx.lineWidth, path |-> c.ctx.path])]
      [] op.op = "fillRect" ->
            LET filled == [mark |-> "fill", style |-> c.ctx.fillStyle,
                           x |-> op.x, y |-> op.y, w |-> op.w, h |-> op.h]
            IN  [c EXCEPT !.surface =
                    IF CoversCanvas(op) THEN <<filled>> ELSE Append(@, filled)]
      [] op.op = "putImageData" ->
            [c EXCEPT !.surface = <<[mark |-> "image", image |-> op.image]>>]

\* the operations ops[a..b] applied in order; the first half of the range is
\* evaluated (the test on it is always true) before the second half starts
RECURSIVE canvasRun(_, _, _, _)
canvasRun(c, ops, a, b) ==
    IF a > b THEN c
    ELSE IF a = b THEN canvasApply(c, ops[a])
    ELSE LET mid == (a + b) \div 2
             half == canvasRun(c, ops, a, mid)
         IN  IF DOMAIN half.ctx # {}
             THEN canvasRun(half, ops, mid + 1, b)
             ELSE half

\* the pixels of the main canvas whose colour the model computes
ScreenSamples == {0, 300, 599}

\* fractalsRenderer.ts lines 12-57 on the main canvas: the image put
drawJuliaSet(centerX, centerY, radius) ==
    <<PutImageData([p \in ScreenSamples \X ScreenSamples |->
                       drawJuliaPixel(p[1], p[2], CanvasWidth, CanvasHeight,
                                      centerX, centerY, radius).rgba])>>

\* a slip: only the left half of the canvas cleared
clearLeftHalf(width, height) ==
    <<SetFillStyle(Black), FillRect(0, 0, width \div 2, height)>>

\* lines 85-86: ctx.fillStyle = '#000000'; ctx.fillRect(0, 0, width, height)
clearCanvas(width, height) ==
    <<SetFillStyle(Black), FillRect(0, 0, width, height)>>

\* lines 89-99: the generator of the selected fractal
selectGenerator(selectedFractal, focus, radius) ==
    CASE selectedFractal = "julia" -> drawJuliaSet(focus.x, focus.y, radius)
      [] selectedFractal = "apollonian" -> drawApollonianGasket(focus.x, focus.y, radius)
      [] selectedFractal = "koch" -> drawKochStar(focus.x, focus.y, radius)

\* lines 75-100: drawFractal, on the canvas c
drawFractal(c, selectedFractal, zoomLevel, focus) ==
    LET ops == clearCanvas(CanvasWidth, CanvasHeight)
                 \o selectGenerator(selectedFractal, focus, zoomLevels[zoomLevel])
    IN  canvasRun(c, ops, 1, Len(ops))

FractalTypes == {"julia", "apollonian", "koch"}

\* the pixel a click lands on, on the diagonal of the canvas
ScreenClicks == {450}

\* lines 17-19 and 142-145: the initial state, drawn once by the effect
InitPlayground ==
    /\ color = Idle
    /\ pixel = Idle
    /\ focusPoint = [x |-> R(0), y |-> R(0)]
    /\ mouse = Idle
    /\ circles = <<>>
    /\ apCall = Idle
    /\ path = <<>>
    /\ kochCall = Idle
    /\ sizes = Idle
    /\ raster = Idle
    /\ screen = [called |-> TRUE, selectedFractal |-> "julia", zoomLevel |-> 1,
                 canvas |-> drawFractal(FreshCanvas, "julia", 1, [x |-> R(0), y |-> R(0)])]
    /\ thumb = Idle
    /\ run = Idle

\* lines 131-133 and 142-145
handleFractalSelect(fractalId) ==
    /\ fractalId # screen.selectedFractal
    /\ screen' = [screen EXCEPT
                    !.selectedFractal = fractalId,
                    !.canvas = drawFractal(@, fractalId, screen.zoomLevel, focusPoint)]
    /\ UNCHANGED <<color, pixel, focusPoint, mouse, circles, apCall, path, kochCall,
                   sizes, raster, thumb, run>>

\* lines 124-126 and 142-145
handleZoomChange(value) ==
    /\ value # screen.zoomLevel
    /\ screen' = [screen EXCEPT
                    !.zoomLevel = value,
                    !.canvas = drawFractal(@, screen.selectedFractal, value, focusPoint)]
    /\ UNCHANGED <<color, pixel, focusPoint, mouse, circles, apCall, path, kochCall,
                   sizes, raster, thumb, run>>

\* lines 106-119 and 142-145
ClickAndRedraw(px, py) ==
    /\ mouse' = [called |-> TRUE, x |-> px, y |-> py]
    /\ focusPoint' = [x |-> ClickToFocus(px, CanvasWidth),
                      y |-> ClickToFocus(py, CanvasHeight)]
    /\ screen' = [screen EXCEPT
                    !.canvas = drawFractal(@, screen.selectedFractal, screen.zoomLevel,
                                           focusPoint')]
    /\ UNCHANGED <<color, pixel, circles, apCall, path, kochCall, sizes, raster,
                   thumb, run>>

NextPlayground ==
    \/ \E fractalId \in FractalTypes : handleFractalSelect(fractalId)
    \/ \E value \in DOMAIN zoomLevels : handleZoomChange(value)
    \/ \E p \in ScreenClicks : ClickAndRedraw(p, p)

SpecPlayground == InitPlayground /\ [][NextPlayground]_vars

\* what the same render leaves on a canvas nothing was drawn on before
CleanRender ==
    drawFractal(FreshCanvas, screen.selectedFractal, screen.zoomLevel, focusPoint).surface

Marks(surface, kind) == {i \in DOMAIN surface : surface[i].mark = kind}

\* C12: after any sequence of renders the canvas shows what the last render
\* draws on a clean canvas, and that is the whole-canvas black fill under
\* the marks of the one generator selected: the image for julia, stroked
\* circles for apollonian, one stroked polyline for koch.
C12_OnlyLastRender ==
    LET surface == screen.canvas.surface
        blackFill == [mark |-> "fill", style |-> Black,
                      x |-> 0, y |-> 0, w |-> CanvasWidth, h |-> CanvasHeight]
    IN  /\ surface = CleanRender
        /\ screen.selectedFractal = "julia" =>
              /\ Len(surface) = 1
              /\ surface[1].mark = "image"
        /\ screen.selectedFractal = "apollonian" =>
              /\ surface[1] = blackFill
              /\ Len(surface) > 1
              /\ \A i \in 2..Len(surface) :
                    /\ surface[i].mark = "stroke"
                    /\ Len(surface[i].path) = 1
                    /\ surface[i].path[1].op = "arc"
        /\ screen.selectedFractal = "koch" =>
              /\ surface[1] = blackFill
              /\ Len(surface) = 2
              /\ surface[2].mark = "stroke"
              /\ surface[2].path[1].op = "moveTo"
              /\ \A i \in 2..Len(surface[2].path) : surface[2].path[i].op = "lineTo"

\* the Julia image alone on the canvas after a click, while the context still
\* holds the path of a star drawn before
C12_Witness ==
    /\ screen.called
    /\ screen.selectedFractal = "julia"
    /\ screen.canvas.ctx.path # <<>>
    /\ screen.canvas.ctx.path[1].op = "moveTo"
    /\ Len(screen.canvas.surface) = 1
    /\ mouse.called

-----------------------------------------------------------------------------
(* thumbnailGenerators.ts.  The three thumbnail generators, translated     *)
(* from their own code.  The Julia thumbnail is computed pixel by pixel;   *)
(* the other two give the canvas operations they perform.                  *)

ClosePath == [op |-> "closePath"]

\* a slip: the iteration count of the main display
thumbMaxIterOfMain == maxIter

\* line 24: const maxIter = 50
thumbMaxIter == 50

\* lines 18-19: const zx = (x / w - 0.5) * 4
thumbMap(p, size) == RMul(RSub(RDiv(R(p), R(size)), <<1, 2>>), R(4))

\* line 27: zx2 * zx2 + zy2 * zy2 < 4
thumbInside(z) == FMul(z.x, z.x) + FMul(z.y, z.y) < 4 * FScale

\* lines 28-30
thumbStep(z) ==
    [x |-> FMul(z.x, z.x) - FMul(z.y, z.y) - Fix(<<8, 10>>),
     y |-> FMul(2 * z.x, z.y) + Fix(<<156, 1000>>)]

\* lines 22-32
RECURSIVE thumbIterations(_, _)
thumbIterations(z, iterations) ==
    IF thumbInside(z) /\ iterations < thumbMaxIter
    THEN thumbIterations(thumbStep(z), iterations + 1)
    ELSE iterations

\* lines 36-41: the yellow gradient
thumbColour(iterations) ==
    LET intensity == RDiv(R(iterations), R(thumbMaxIter))
    IN  <<RFloor(RMul(R(255), RSub(R(1), RMul(intensity, <<1, 2>>)))),
          RFloor(RMul(R(255), RSub(R(1), RMul(intensity, <<3, 10>>)))),
          RFloor(RMul(R(100), RSub(R(1), intensity))),
          255>>

\* lines 16-41: the body of the double loop of generateJuliaThumbnail
generateJuliaThumbnailPixel(x, y, w, h) ==
    LET zx == thumbMap(x, w)
        zy == thumbMap(y, h)
        iterations == thumbIterations([x |-> Fix(zx), y |-> Fix(zy)], 0)
    IN  [zx |-> zx, zy |-> zy, iterations |-> iterations,
         idx |-> (y * w + x) * 4, rgba |-> thumbColour(iterations)]

\* Math.min
MinOf(a, b) == IF a < b THEN a ELSE b

\* '#1a1a1a'
ThumbBackground == <<26, 26, 26>>

\* lines 60-70: the four circles
thumbCircles(w, h) ==
    LET centerX == Rat(w, 2)
        centerY == Rat(h, 2)
        baseRadius == RDiv(R(MinOf(w, h)), R(6))
    IN  <<[x |-> centerX, y |-> RSub(centerY, baseRadius),
           r |-> RMul(baseRadius, <<8, 10>>)],
          [x |-> RSub(centerX, baseRadius),
           y |-> RAdd(centerY, RMul(baseRadius, <<1, 2>>)),
           r |-> RMul(baseRadius, <<8, 10>>)],
          [x |-> RAdd(centerX, baseRadius),
           y |-> RAdd(centerY, RMul(baseRadius, <<1, 2>>)),
           r |-> RMul(baseRadius, <<8, 10>>)],
          [x |-> centerX, y |-> RAdd(centerY, RMul(baseRadius, <<3, 10>>)),
           r |-> RMul(baseRadius, <<4, 10>>)]>>

\* lines 74-79: one circle of the forEach, i = 0..3
thumbCircle(circle, i) ==
    LET intensity == Rat(4 - i, 4)
    IN  <<SetStrokeStyle(<<RFloor(RMul(R(255), intensity)),
                           RFloor(RMul(R(255), intensity)),
                           RFloor(RMul(R(100), intensity))>>),
          SetLineWidth(2), BeginPath, Arc(circle.x, circle.y, circle.r), Stroke>>

\* lines 55-81
generateApollonianThumbnail(w, h) ==
    LET circles4 == thumbCircles(w, h)
    IN  <<SetFillStyle(ThumbBackground), FillRect(0, 0, w, h)>>
          \o thumbCircle(circles4[1], 0) \o thumbCircle(circles4[2], 1)
          \o thumbCircle(circles4[3], 2) \o thumbCircle(circles4[4], 3)

\* lines 95-97 and 106-108: vertex i of the octagon
thumbVertex(w, h, i) ==
    LET radius == QRat(RDiv(R(MinOf(w, h)), R(3)))
    IN  [x |-> QAdd(QRat(Rat(w, 2)), QMul(CosEighth(i), radius)),
         y |-> QAdd(QRat(Rat(h, 2)), QMul(SinEighth(i), radius))]

\* lines 105-115: moveTo for i = 0, lineTo for i = 1..7
thumbOutline(w, h) ==
    [i \in 1..8 |->
        IF i = 1
        THEN MoveTo(thumbVertex(w, h, 0).x, thumbVertex(w, h, 0).y)
        ELSE LineTo(thumbVertex(w, h, i - 1).x, thumbVertex(w, h, i - 1).y)]

\* lines 90-118; '#ffdd44' is rgb(255, 221, 68)
generateKochThumbnail(w, h) ==
    <<SetFillStyle(ThumbBackground), FillRect(0, 0, w, h),
      SetStrokeStyle(<<255, 221, 68>>), SetLineWidth(<<3, 2>>), BeginPath>>
      \o thumbOutline(w, h)
      \o <<ClosePath, Stroke>>

\* fractalsPlayground.tsx lines 42-43 make the thumbnails 120 x 80; half that
\* size is tried too
ThumbWidths == {60, 120}
ThumbHeights == {40, 80}

\* the Julia thumbnail is sampled every ThumbStride pixels, and at its last pixel
ThumbStride == 10

ThumbPixels(size) ==
    {k * ThumbStride : k \in 0..((size - 1) \div ThumbStride)} \cup {size - 1}

ThumbCalls ==
    {[called |-> FALSE, fn |-> "generateJuliaThumbnail", w |-> w, h |-> h,
      x |-> x, y |-> y] :
        w \in ThumbWidths, h \in ThumbHeights,
        x \in ThumbPixels(120), y \in ThumbPixels(80)}
    \cup
    {[called |-> FALSE, fn |-> fn, w |-> w, h |-> h] :
        fn \in {"generateApollonianThumbnail", "generateKochThumbnail"},
        w \in ThumbWidths, h \in ThumbHeights}

InitThumbnails ==
    /\ color = Idle
    /\ pixel = Idle
    /\ focusPoint = [x |-> R(0), y |-> R(0)]
    /\ mouse = Idle
    /\ circles = <<>>
    /\ apCall = Idle
    /\ path = <<>>
    /\ kochCall = Idle
    /\ sizes = Idle
    /\ raster = Idle
    /\ screen = Idle
    /\ \E call \in ThumbCalls :
          /\ call.fn = "generateJuliaThumbnail" => (call.x < call.w /\ call.y < call.h)
          /\ thumb = call
    /\ run = Idle

CallGenerateJuliaThumbnail ==
    /\ ~thumb.called
    /\ thumb.fn = "generateJuliaThumbnail"
    /\ thumb' = [called |-> TRUE, fn |-> thumb.fn, w |-> thumb.w, h |-> thumb.h,
                 x |-> thumb.x, y |-> thumb.y,
                 out |-> generateJuliaThumbnailPixel(thumb.x, thumb.y, thumb.w, thumb.h)]
    /\ UNCHANGED <<color, pixel, focusPoint, mouse, circles, apCall, path, kochCall,
                   sizes, raster, screen, run>>

CallGenerateApollonianThumbnail ==
    /\ ~thumb.called
    /\ thumb.fn = "generateApollonianThumbnail"
    /\ thumb' = [called |-> TRUE, fn |-> thumb.fn, w |-> thumb.w, h |-> thumb.h,
                 out |-> generateApollonianThumbnail(thumb.w, thumb.h)]
    /\ UNCHANGED <<color, pixel, focusPoint, mouse, circles, apCall, path, kochCall,
                   sizes, raster, screen, run>>

CallGenerateKochThumbnail ==
    /\ ~thumb.called
    /\ thumb.fn = "generateKochThumbnail"
    /\ thumb' = [called |-> TRUE, fn |-> thumb.fn, w |-> thumb.w, h |-> thumb.h,
                 out |-> generateKochThumbnail(thumb.w, thumb.h)]
    /\ UNCHANGED <<color, pixel, focusPoint, mouse, circles, apCall, path, kochCall,
                   sizes, raster, screen, run>>

SpecThumbnails ==
    InitThumbnails
      /\ [][CallGenerateJuliaThumbnail \/ CallGenerateApollonianThumbnail
              \/ CallGenerateKochThumbnail]_vars

IsArc(c) == c.op = "arc"
IsLineTo(c) == c.op = "lineTo"

\* the Julia thumbnail pixel against the main generator: the mapping of
\* drawJuliaSet around the origin at radius 1, and the main loop's count,
\* which stops at 100, cut at 50
ThumbnailIteratesAsMain ==
    /\ thumb.out.zx = juliaMap(R(0), thumb.x, thumb.w, R(1))
    /\ thumb.out.zy = juliaMap(R(0), thumb.y, thumb.h, R(1))
    /\ thumb.out.iterations
          = MinOf(juliaIterations([x |-> Fix(thumb.out.zx), y |-> Fix(thumb.out.zy)], 0),
                  50)

\* the circles of the thumbnail are those drawApollonianRecursive strokes
\* from the first of them, at recursion depth d
ThumbnailIsGasket(d) ==
    LET arcs == SelectSeq(thumb.out, IsArc)
    IN  arcs = SelectSeq(drawApollonianRecursive(arcs[1].x, arcs[1].y, arcs[1].r, d),
                         IsArc)

\* the 8 edges of the thumbnail's octagon, each a Koch curve of depth d
RECURSIVE ThumbStarFrom(_, _, _, _)
ThumbStarFrom(w, h, d, i) ==
    IF i >= 8 THEN <<>>
    ELSE LET start == thumbVertex(w, h, i)
             end == thumbVertex(w, h, (i + 1) % 8)
         IN  drawKochLine(start.x, start.y, end.x, end.y, d)
               \o ThumbStarFrom(w, h, d, i + 1)

\* the segments of the thumbnail are those of the star at depth d
ThumbnailIsStar(d) ==
    SelectSeq(thumb.out, IsLineTo) = ThumbStarFrom(thumb.w, thumb.h, d, 0)

\* C13 as claimed: each thumbnail is its main generator at a lower count:
\* the escape-time iteration cut at 50, the quad-offset recursion at a depth
\* below 5, the Koch-subdivided star at a depth below 3.
C13_SharedFormulas ==
    thumb.called =>
        /\ thumb.fn = "generateJuliaThumbnail" => ThumbnailIteratesAsMain
        /\ thumb.fn = "generateApollonianThumbnail" => \E d \in 1..4 : ThumbnailIsGasket(d)
        /\ thumb.fn = "generateKochThumbnail" => \E d \in 1..2 : ThumbnailIsStar(d)

\* C13 as amended: the Julia thumbnail runs the same iteration cut at 50 and
\* colours it with its own yellow gradient; the Apollonian thumbnail strokes
\* four fixed circles (three of radius 0.8 b, one of radius 0.4 b, with
\* b = min(w, h) / 6), which are the output of the recursion at no depth;
\* the Koch thumbnail strokes the plain octagon, without any subdivision: a
\* moveTo, the 7 lineTo of the first 7 edges at depth 0, and a closePath.
C13_ThumbnailsAsCoded ==
    thumb.called =>
        /\ thumb.fn = "generateJuliaThumbnail" =>
              /\ ThumbnailIteratesAsMain
              /\ thumb.out.iterations = 0 => thumb.out.rgba = <<255, 255, 100, 255>>
              /\ thumb.out.iterations = 50 => thumb.out.rgba = <<127, 178, 0, 255>>
        /\ thumb.fn = "generateApollonianThumbnail" =>
              LET arcs == SelectSeq(thumb.out, IsArc)
                  b == Rat(MinOf(thumb.w, thumb.h), 6)
              IN  /\ Len(arcs) = 4
                  /\ \A i \in 1..3 : arcs[i].r = RMul(b, <<8, 10>>)
                  /\ arcs[4].r = RMul(b, <<4, 10>>)
                  /\ \A d \in 1..5 : ~ThumbnailIsGasket(d)
        /\ thumb.fn = "generateKochThumbnail" =>
              LET lines == SelectSeq(thumb.out, IsLineTo)
                  n == Len(thumb.out)
              IN  /\ lines = SubSeq(ThumbStarFrom(thumb.w, thumb.h, 0, 0), 1, 7)
                  /\ thumb.out[n - 1] = ClosePath
                  /\ thumb.out[n] = Stroke
                  /\ \A d \in 1..3 : ~ThumbnailIsStar(d)

\* the Apollonian thumbnail of the size the playground makes, with its four
\* circles
C13_Witness ==
    /\ thumb.called
    /\ thumb.fn = "generateApollonianThumbnail"
    /\ thumb.w = 120 /\ thumb.h = 80
    /\ Len(SelectSeq(thumb.out, IsArc)) = 4

\* a pixel of the Julia thumbnail that the cut at 50 stops
C13_JuliaCut ==
    /\ thumb.called
    /\ thumb.fn = "generateJuliaThumbnail"
    /\ thumb.out.iterations = 50

-----------------------------------------------------------------------------
(* The generators executing step by step.  The recursive functions run on *)
(* an explicit call stack, the innermost call first; a frame holds the     *)
(* arguments of its call and the place it has reached: 0 on entry, k when  *)
(* its k-th recursive call is the next thing to do, 5 when it is about to  *)
(* return.  The Julia generator runs its loops on a small canvas.  `draws` *)
(* counts the pixels written, the circles stroked, the segments drawn.     *)

\* fractalsRenderer.ts line 124: if (depth === 0)
kochBaseCase(depth) == depth = 0

RunCalls ==
    {[called |-> TRUE, gen |-> "julia", focus |-> c, radius |-> zoomLevels[z],
      width |-> width, height |-> height, x |-> 0, y |-> 0,
      pc |-> "pixel", z |-> [x |-> 0, y |-> 0], iterations |-> 0,
      draws |-> 0, done |-> FALSE] :
        c \in FocusPoints, z \in DOMAIN zoomLevels,
        width \in 1..MaxSide, height \in 1..MaxSide}
    \cup
    {[called |-> TRUE, gen |-> gen, focus |-> c, radius |-> zoomLevels[z],
      pc |-> "start", stack |-> <<>>, edge |-> 0, deepest |-> 0,
      draws |-> 0, done |-> FALSE] :
        gen \in {"apollonian", "koch"}, c \in FocusPoints, z \in DOMAIN zoomLevels}

InitRun ==
    /\ color = Idle
    /\ pixel = Idle
    /\ focusPoint = [x |-> R(0), y |-> R(0)]
    /\ mouse = Idle
    /\ circles = <<>>
    /\ apCall = Idle
    /\ path = <<>>
    /\ kochCall = Idle
    /\ sizes = Idle
    /\ raster = Idle
    /\ screen = Idle
    /\ thumb = Idle
    /\ run \in RunCalls

RunUnchanged ==
    UNCHANGED <<color, pixel, focusPoint, mouse, circles, apCall, path, kochCall,
                sizes, raster, screen, thumb>>

\* the deepest nesting so far, after the stack has become `stack`
Deepest(stack) == IF Len(stack) > run.deepest THEN Len(stack) ELSE run.deepest

\* drawJuliaSet lines 19-27: the next pixel is mapped to the plane
RunJuliaMap ==
    /\ run.gen = "julia" /\ run.pc = "pixel"
    /\ run.x < run.width
    /\ run' = [run EXCEPT
                 !.z = [x |-> Fix(juliaMap(run.focus, run.x, run.width, run.radius)),
                        y |-> Fix(juliaMap(run.focus, run.y, run.height, run.radius))],
                 !.iterations = 0,
                 !.pc = "loop"]
    /\ RunUnchanged

\* lines 30-35: one pass of the while loop
RunJuliaIterate ==
    /\ run.gen = "julia" /\ run.pc = "loop"
    /\ juliaInside(run.z) /\ run.iterations < maxIter
    /\ run' = [run EXCEPT !.z = juliaStep(@), !.iterations = @ + 1]
    /\ RunUnchanged

\* lines 38-52, and the loop counters: the loop has ended, the pixel is written
RunJuliaWrite ==
    /\ run.gen = "julia" /\ run.pc = "loop"
    /\ ~(juliaInside(run.z) /\ run.iterations < maxIter)
    /\ LET last == run.y + 1 = run.height
       IN  run' = [run EXCEPT
                     !.draws = @ + 1,
                     !.y = IF last THEN 0 ELSE @ + 1,
                     !.x = IF last THEN @ + 1 ELSE @,
                     !.pc = "pixel"]
    /\ RunUnchanged

\* line 56: putImageData, and the return
RunJuliaReturn ==
    /\ run.gen = "julia" /\ run.pc = "pixel"
    /\ run.x = run.width
    /\ run' = [run EXCEPT !.pc = "done", !.done = TRUE]
    /\ RunUnchanged

\* drawApollonianGasket lines 105-109: the first call of drawApollonianRecursive
RunGasketStart ==
    /\ run.gen = "apollonian" /\ run.pc = "start"
    /\ LET first == apollonianStart(run.focus, run.focus, run.radius)
           stack == <<[x |-> first.x, y |-> first.y, r |-> first.r,
                       depth |-> first.depth, pc |-> 0]>>
       IN  run' = [run EXCEPT !.stack = stack, !.deepest = Deepest(stack),
                              !.pc = "recursion"]
    /\ RunUnchanged

\* drawApollonianRecursive lines 70-83: the call returns at once, or strokes
\* its circle and then either goes on to its children or returns
RunApollonianEnter ==
    /\ run.gen = "apollonian" /\ run.pc = "recursion"
    /\ run.stack # <<>>
    /\ LET top == Head(run.stack)
       IN  /\ top.pc = 0
           /\ run' =
                 IF apollonianStop(top.r, top.depth)
                 THEN [run EXCEPT !.stack = Tail(@)]
                 ELSE IF apollonianSpawn(top.depth)
                      THEN [run EXCEPT !.draws = @ + 1, !.stack[1].pc = 1]
                      ELSE [run EXCEPT !.draws = @ + 1, !.stack = Tail(@)]
    /\ RunUnchanged

\* the arguments of the k-th recursive call of a frame, lines 89-92
apollonianChild(f, k) ==
    LET newR == apollonianNewR(f.r)
        offset == apollonianOffset(f.r)
    IN  [x |-> CASE k = 1 -> RAdd(f.x, offset) [] k = 2 -> RSub(f.x, offset)
                 [] OTHER -> f.x,
         y |-> CASE k = 3 -> RAdd(f.y, offset) [] k = 4 -> RSub(f.y, offset)
                 [] OTHER -> f.y,
         r |-> newR, depth |-> f.depth - 1, pc |-> 0]

\* lines 89-92: the next recursive call
RunApollonianRecurse ==
    /\ run.gen = "apollonian" /\ run.pc = "recursion"
    /\ run.stack # <<>>
    /\ LET top == Head(run.stack)
       IN  /\ top.pc \in 1..4
           /\ LET stack == <<apollonianChild(top, top.pc),
                             [top EXCEPT !.pc = @ + 1]>> \o Tail(run.stack)
              IN  run' = [run EXCEPT !.stack = stack, !.deepest = Deepest(stack)]
    /\ RunUnchanged

\* line 94: the return after the fourth child
RunApollonianReturn ==
    /\ run.gen = "apollonian" /\ run.pc = "recursion"
    /\ run.stack # <<>>
    /\ Head(run.stack).pc = 5
    /\ run' = [run EXCEPT !.stack = Tail(@)]
    /\ RunUnchanged

\* line 110: the first call has returned
RunGasketReturn ==
    /\ run.gen = "apollonian" /\ run.pc = "recursion"
    /\ run.stack = <<>>
    /\ run' = [run EXCEPT !.pc = "done", !.done = TRUE]
    /\ RunUnchanged

\* drawKochStar lines 160-181: the style, the vertices, beginPath and moveTo
RunStarStart ==
    /\ run.gen = "koch" /\ run.pc = "start"
    /\ run' = [run EXCEPT !.pc = "edges", !.edge = 0]
    /\ RunUnchanged

\* lines 182-185: the call of drawKochLine for the next edge
RunStarEdge ==
    /\ run.gen = "koch" /\ run.pc = "edges"
    /\ run.stack = <<>>
    /\ run.edge < 8
    /\ LET vertices == kochVertices(run.focus, run.focus, run.radius)
           start == vertices[run.edge]
           end == vertices[(run.edge + 1) % 8]
           stack == <<[x1 |-> start.x, y1 |-> start.y, x2 |-> end.x, y2 |-> end.y,
                       depth |-> kochStarDepth, pc |-> 0]>>
       IN  run' = [run EXCEPT !.stack = stack, !.deepest = Deepest(stack),
                              !.edge = @ + 1]
    /\ RunUnchanged

\* drawKochLine lines 124-127: the base case draws and returns; otherwise the
\* call goes on to its four recursive calls
RunKochEnter ==
    /\ run.gen = "koch" /\ run.pc = "edges"
    /\ run.stack # <<>>
    /\ LET top == Head(run.stack)
       IN  /\ top.pc = 0
           /\ run' =
                 IF kochBaseCase(top.depth)
                 THEN [run EXCEPT !.draws = @ + 1, !.stack = Tail(@)]
                 ELSE [run EXCEPT !.stack[1].pc = 1]
    /\ RunUnchanged

\* the arguments of the k-th recursive call of a frame, lines 129-148
kochChild(f, k) ==
    LET dx == QSub(f.x2, f.x1)
        dy == QSub(f.y2, f.y1)
        x3 == kochThird(f.x1, dx)
        y3 == kochThird(f.y1, dy)
        x4 == kochTwoThirds(f.x1, dx)
        y4 == kochTwoThirds(f.y1, dy)
        px == kochPeakX(x3, y3, x4, y4)
        py == kochPeakY(x3, y3, x4, y4)
        ends == CASE k = 1 -> <<f.x1, f.y1, x3, y3>>
                  [] k = 2 -> <<x3, y3, px, py>>
                  [] k = 3 -> <<px, py, x4, y4>>
                  [] k = 4 -> <<x4, y4, f.x2, f.y2>>
    IN  [x1 |-> ends[1], y1 |-> ends[2], x2 |-> ends[3], y2 |-> ends[4],
         depth |-> f.depth - 1, pc |-> 0]

\* lines 145-148: the next recursive call
RunKochRecurse ==
    /\ run.gen = "koch" /\ run.pc = "edges"
    /\ run.stack # <<>>
    /\ LET top == Head(run.stack)
       IN  /\ top.pc \in 1..4
           /\ LET stack == <<kochChild(top, top.pc),
                             [top EXCEPT !.pc = @ + 1]>> \o Tail(run.stack)
              IN  run' = [run EXCEPT !.stack = stack, !.deepest = Deepest(stack)]
    /\ RunUnchanged

\* line 149: the return after the fourth segment
RunKochReturn ==
    /\ run.gen = "koch" /\ run.pc = "edges"
    /\ run.stack # <<>>
    /\ Head(run.stack).pc = 5
    /\ run' = [run EXCEPT !.stack = Tail(@)]
    /\ RunUnchanged

\* line 187: the stroke after the eighth edge, and the return
RunStarReturn ==
    /\ run.gen = "koch" /\ run.pc = "edges"
    /\ run.stack = <<>>
    /\ run.edge = 8
    /\ run' = [run EXCEPT !.pc = "done", !.done = TRUE]
    /\ RunUnchanged

NextRun ==
    \/ RunJuliaMap \/ RunJuliaIterate \/ RunJuliaWrite \/ RunJuliaReturn
    \/ RunGasketStart \/ RunApollonianEnter \/ RunApollonianRecurse
    \/ RunApollonianReturn \/ RunGasketReturn
    \/ RunStarStart \/ RunStarEdge \/ RunKochEnter \/ RunKochRecurse
    \/ RunKochReturn \/ RunStarReturn

\* A generator is one JavaScript call: nothing suspends it, so a step that
\* can be taken is taken.  A step can be taken in every state but the last
\* (run.done), so weak fairness of NextRun is: the run is done, or it keeps
\* taking steps.
RunFairness == []<>(run.done) \/ []<><<NextRun>>_vars

SpecRun == InitRun /\ [][NextRun]_vars /\ RunFairness

\* the depths of the frames, from the first call to the innermost
Depths == [i \in 1..Len(run.stack) |-> run.stack[Len(run.stack) + 1 - i].depth]

\* each call nested in another has the depth of its caller less 1
DepthsDecrease == \A i \in 1..(Len(run.stack) - 1) : Depths[i + 1] = Depths[i] - 1

C17_Bounded ==
    /\ run.gen = "julia" =>
          /\ run.iterations <= 100
          /\ run.draws <= run.width * run.height
    /\ run.gen = "apollonian" =>
          /\ Len(run.stack) <= 5
          /\ DepthsDecrease
          /\ \A i \in 1..Len(run.stack) : Depths[i] = 6 - i
          /\ run.draws <= 341
    /\ run.gen = "koch" =>
          /\ Len(run.stack) <= 1 + 3
          /\ DepthsDecrease
          /\ \A i \in 1..Len(run.stack) : Depths[i] = 4 - i
          /\ run.draws <= 512

\* C17: every render runs to completion: a pixel takes at most 100
\* iterations; the calls of drawApollonianRecursive on the stack have depths
\* 5, 4, ..., each 1 less than its caller's, at most 5 of them; those of
\* drawKochLine have depths 3, 2, 1, 0, at most 3 nested in the call for the
\* edge; the draw operations stay within 341 circles and 512 segments; and
\* the generator returns.
C17_RunsToCompletion == []C17_Bounded /\ <>(run.done)

\* a gasket that has returned after 341 circles, having nested 5 calls
C17_Witness ==
    /\ run.done /\ run.gen = "apollonian"
    /\ run.draws = 341 /\ run.deepest = 5

\* a star that has returned after 512 segments, having nested 3 calls in the
\* call for an edge
C17_StarDone ==
    /\ run.done /\ run.gen = "koch"
    /\ run.draws = 512 /\ run.deepest = 4

-----------------------------------------------------------------------------
(* The colour model on its own: hsbToRgb applied to sampled arguments.     *)

MaxHue == 359
Percents == {0, 25, 50, 80, 90, 100}

InitColor ==
    /\ \E h \in 0..MaxHue, s \in Percents, b \in Percents :
          color = [called |-> FALSE, h |-> h, s |-> s, b |-> b, rgb |-> <<>>]
    /\ pixel = Idle
    /\ focusPoint = [x |-> R(0), y |-> R(0)]
    /\ mouse = Idle
    /\ circles = <<>>
    /\ apCall = Idle
    /\ path = <<>>
    /\ kochCall = Idle
    /\ sizes = Idle
    /\ raster = Idle
    /\ screen = Idle
    /\ thumb = Idle
    /\ run = Idle

CallHsbToRgb ==
    /\ ~color.called
    /\ color' = [color EXCEPT !.called = TRUE,
                               !.rgb = hsbToRgb(R(color.h), R(color.s), R(color.b))]
    /\ UNCHANGED <<pixel, focusPoint, mouse, circles, apCall, path, kochCall, sizes,
                 raster, screen, thumb, run>>

SpecColor == InitColor /\ [][CallHsbToRgb]_vars

\* C7: at full saturation and brightness the six 60-degree boundaries give
\* the six primary and secondary colours exactly.
PrimaryColours ==
    <<<<255, 0, 0>>, <<255, 255, 0>>, <<0, 255, 0>>,
      <<0, 255, 255>>, <<0, 0, 255>>, <<255, 0, 255>>>>

C7_SixBoundaries ==
    (color.called /\ color.s = 100 /\ color.b = 100 /\ color.h % 60 = 0
        /\ color.h < 360)
        => color.rgb = PrimaryColours[(color.h \div 60) + 1]

C7_Witness ==
    color.called /\ color.s = 100 /\ color.b = 100 /\ color.h = 300
        /\ color.rgb = <<255, 0, 255>>

\* C14: for every hue in [0, 360) and every saturation and brightness in
\* [0, 100] hsbToRgb returns three integers, each in 0..255, and the same
\* arguments give the same triple again.
C14_ChannelRange ==
    color.called =>
        /\ Len(color.rgb) = 3
        /\ \A i \in 1..3 : color.rgb[i] \in 0..255
        /\ color.rgb = hsbToRgb(R(color.h), R(color.s), R(color.b))

\* the last hue of the domain at the saturation and brightness the main
\* renderers use: rgb(230, 46, 49)
C14_Witness ==
    /\ color.called
    /\ color.h = 359 /\ color.s = 80 /\ color.b = 90
    /\ color.rgb = <<230, 46, 49>>

=============================================================================
